---- MODULE Spec2Model ----
(***************************************************************************)
(* Model of package progress (src/progress.go): the Progress value, its    *)
(* accessors, and the sampler goroutine started by NewTicker, together     *)
(* with its environment: the clock, the Counter, the context and the       *)
(* consumer of the unbuffered channel.                                     *)
(*                                                                         *)
(* Times are integers in clock units (a unit stands for the nanosecond of  *)
(* time.Duration).  ZeroTime is the zero time.Time; the clock starts at    *)
(* Epoch > ZeroTime, as time.Now() never returns the zero time.  Clock     *)
(* readings saturate at MaxTime while armed timers keep running down, so   *)
(* that a run of unbounded length has finitely many states.                *)
(*                                                                         *)
(* float64 values are modelled exactly: for the operand ranges of this     *)
(* model the IEEE quotient past/(n/size), truncated by time.Duration(),    *)
(* equals the truncated exact quotient past*size/n.                        *)
(***************************************************************************)
EXTENDS Integers, Sequences, FiniteSets, TLC

\* ------------------------------------------------------------------ bounds
MaxSize == 3
MaxInterval == 2
MaxCount == 4
MaxStep == 2
MaxTime == 5
MaxHist == 2
FarDuration == 1000

ZeroTime == 0
Epoch == 1
NoTimer == 0 - 1

Sizes == (0 - 1) .. MaxSize
Intervals == 1 .. MaxInterval

VARIABLES
    size,       \* NewTicker argument size
    d,          \* NewTicker argument d
    monotonic,  \* whether the Counter of this run never decreases
    now,        \* the clock read by time.Now()
    timer,      \* time left until the channel of time.After(d) is ready
    counter,    \* the value Counter.N() returns
    cancelled,  \* ctx.Done() is closed
    started,    \* local variable started of NewTicker
    pc,         \* position of the sampler goroutine
    progress,   \* local variable progress of the loop body
    ch,         \* "open" or "closed": the channel ch
    delivered,  \* the last MaxHist snapshots the consumer received
    seen        \* history: some tick of this run has read a count > 0

params == <<size, d, monotonic>>
env == <<now, counter, cancelled>>
vars == <<size, d, monotonic, now, timer, counter, cancelled, started, pc,
          progress, ch, delivered, seen>>

\* --------------------------------------------------------------- helpers
Min(a, b) == IF a < b THEN a ELSE b

Abs(a) == IF a < 0 THEN 0 - a ELSE a

\* integer quotient truncated toward zero, as the conversion time.Duration(f)
TruncDiv(a, b) ==
    IF (a >= 0) = (b > 0) THEN Abs(a) \div Abs(b) ELSE 0 - (Abs(a) \div Abs(b))

\* ------------------------------------------------------ the Progress value
\* mutant: the arguments n and size in each other's place
NewProgressSwapped(n, sz, t, pr) ==
    [n |-> sz, size |-> n, estimated |-> ZeroTime, at |-> t, prior |-> pr]

\* at and prior are history fields: the clock reading of the tick that built
\* the value, and whether an earlier tick of the run had read a count > 0.
NewProgress(n, sz, t, pr) ==
    [n |-> n, size |-> sz, estimated |-> ZeroTime, at |-> t, prior |-> pr]

NoProgress == NewProgress(0, 0, ZeroTime, FALSE)

\* mutant: started although nothing was counted yet
StartedAtZero(p) == p.n >= 0

Started(p) == p.n > 0

\* mutants: > and == in place of >=
CompleteStrict(p) == p.n > p.size

CompleteExact(p) == p.n = p.size

Complete(p) == p.n >= p.size

\* mutant: the test inverted
IsZeroInverted(t) == t # ZeroTime

IsZero(t) == t = ZeroTime

\* Percent as a fraction <<numerator, denominator>>; denominator 0 is +Inf.
Percent(p) ==
    IF p.n = 0 THEN <<0, 1>>
    ELSE IF p.n = p.size THEN <<100, 1>>
    ELSE IF p.size = 0 THEN <<1, 0>>
    ELSE IF p.size < 0 THEN <<0 - (100 * p.n), 0 - p.size>>
    ELSE <<100 * p.n, p.size>>

\* mutant: the time still to go in place of the projected total
FutureRemaining(past, p) ==
    IF p.n = 0 \/ p.size = 0 THEN {0}
    ELSE {TruncDiv(past * p.size, p.n) - past}

\* mutant: past * ratio in place of past / ratio
FutureScaled(past, p) ==
    IF p.size = 0 THEN {0} ELSE {TruncDiv(past * p.n, p.size)}

\* time.Duration(past / ratio) with ratio = n / size.  A non-finite quotient
\* converts to an implementation-dependent int64: the minimum (amd64), or
\* the saturated value / 0 for NaN (arm64).
Future(past, p) ==
    IF p.n = 0
      THEN IF p.size = 0 \/ past = 0
             THEN {0 - FarDuration, 0}
             ELSE IF p.size > 0 THEN {0 - FarDuration, FarDuration}
                                ELSE {0 - FarDuration}
    ELSE IF p.size = 0 THEN {0}
    ELSE {TruncDiv(past * p.size, p.n)}

\* ------------------------------------------------------------------- Init
Init ==
    /\ size \in Sizes
    /\ d \in Intervals
    /\ monotonic \in BOOLEAN
    /\ now = Epoch
    /\ timer = NoTimer
    /\ counter = 0
    /\ cancelled = FALSE
    /\ started = ZeroTime
    /\ pc = "loop"
    /\ progress = NoProgress
    /\ ch = "open"
    /\ delivered = <<>>
    /\ seen = FALSE

\* ------------------------------------------------------------ environment
\* Time passes: the clock advances and an armed timer runs down.
Tick ==
    /\ now < MaxTime \/ timer > 0
    /\ now' = Min(now + 1, MaxTime)
    /\ timer' = IF timer > 0 THEN timer - 1 ELSE timer
    /\ UNCHANGED <<params, counter, cancelled, started, pc, progress, ch,
                   delivered, seen>>

\* The instrumented stream moves bytes.
Advance ==
    /\ \E k \in 1 .. MaxStep :
          /\ counter + k <= MaxCount
          /\ counter' = counter + k
    /\ UNCHANGED <<params, now, timer, cancelled, started, pc, progress, ch,
                   delivered, seen>>

\* A Counter that is not monotonic drops to a lower value.
Reset ==
    /\ ~monotonic
    /\ \E c \in 0 .. (counter - 1) : counter' = c
    /\ UNCHANGED <<params, now, timer, cancelled, started, pc, progress, ch,
                   delivered, seen>>

\* mutant: the cancellation is only seen by the next poll of the select
CancelNoWake ==
    /\ ~cancelled
    /\ cancelled' = TRUE
    /\ UNCHANGED <<params, now, counter, timer, started, pc, progress, ch,
                   delivered, seen>>

\* mutant: the cancellation also interrupts a goroutine blocked on the send
CancelWakesSender ==
    /\ ~cancelled
    /\ cancelled' = TRUE
    /\ pc' = IF pc \in {"wait", "send"} THEN "ctxdone" ELSE pc
    /\ timer' = IF pc = "wait" THEN NoTimer ELSE timer
    /\ UNCHANGED <<params, now, counter, started, progress, ch, delivered,
                   seen>>

\* The context is cancelled.  A goroutine blocked in the select is woken
\* with the ctx.Done() case.
Cancel ==
    /\ ~cancelled
    /\ cancelled' = TRUE
    /\ pc' = IF pc = "wait" THEN "ctxdone" ELSE pc
    /\ timer' = IF pc = "wait" THEN NoTimer ELSE timer
    /\ UNCHANGED <<params, now, counter, started, progress, ch, delivered,
                   seen>>

\* -------------------------------------------------- the sampler goroutine
\* mutant: a timer that is due at once, as time.After(0)
ArmImmediate ==
    /\ pc = "loop"
    /\ timer' = 0
    /\ pc' = "select"
    /\ UNCHANGED <<params, env, started, progress, ch, delivered, seen>>

\* Top of the for loop: the select evaluates time.After(d).
Arm ==
    /\ pc = "loop"
    /\ timer' = d
    /\ pc' = "select"
    /\ UNCHANGED <<params, env, started, progress, ch, delivered, seen>>

\* The select polls its cases: a ready case is chosen (at random among the
\* ready ones), otherwise the goroutine blocks.
Poll ==
    /\ pc = "select"
    /\ \/ cancelled /\ pc' = "ctxdone" /\ timer' = NoTimer
       \/ timer = 0 /\ pc' = "fired" /\ timer' = NoTimer
       \/ ~cancelled /\ pc' = "wait" /\ timer' = timer
    /\ UNCHANGED <<params, env, started, progress, ch, delivered, seen>>

\* The timer fires while the goroutine is blocked in the select.
TimerFire ==
    /\ pc = "wait"
    /\ timer = 0
    /\ pc' = "fired"
    /\ timer' = NoTimer
    /\ UNCHANGED <<params, env, started, progress, ch, delivered, seen>>

\* mutant: a last snapshot is sent when the cancellation is observed
CtxDoneEmits ==
    /\ pc = "ctxdone"
    /\ progress' = NewProgress(counter, size, now, seen)
    /\ pc' = "send"
    /\ UNCHANGED <<params, env, timer, started, ch, delivered, seen>>

\* mutant: the return without the deferred close(ch)
CtxDoneNoClose ==
    /\ pc = "ctxdone"
    /\ pc' = "done"
    /\ UNCHANGED <<params, env, timer, started, progress, ch, delivered, seen>>

\* case <-ctx.Done(): return, and the deferred close(ch).
CtxDone ==
    /\ pc = "ctxdone"
    /\ pc' = "done"
    /\ ch' = "closed"
    /\ UNCHANGED <<params, env, timer, started, progress, delivered, seen>>

\* mutant: the first tick sets the anchor whatever count it reads
BodyAnchorAlways ==
    /\ pc = "fired"
    /\ LET p == NewProgress(counter, size, now, seen) IN
         /\ IF IsZero(started)
              THEN /\ started' = now
                   /\ progress' = p
              ELSE /\ \E future \in Future(now - started, p) :
                         progress' = [p EXCEPT !.estimated = started + future]
                   /\ started' = started
         /\ seen' = TRUE
    /\ pc' = "send"
    /\ UNCHANGED <<params, env, timer, ch, delivered>>

\* mutant: the anchor moved to the present tick after each estimate
BodyReanchor ==
    /\ pc = "fired"
    /\ LET p == NewProgress(counter, size, now, seen) IN
         /\ IF IsZero(started)
              THEN /\ started' = IF Started(p) THEN now ELSE started
                   /\ progress' = p
              ELSE /\ \E future \in Future(now - started, p) :
                         progress' = [p EXCEPT !.estimated = started + future]
                   /\ started' = now
         /\ seen' = (seen \/ counter > 0)
    /\ pc' = "send"
    /\ UNCHANGED <<params, env, timer, ch, delivered>>

\* case <-time.After(d): the body up to the send.
Body ==
    /\ pc = "fired"
    /\ LET p == NewProgress(counter, size, now, seen) IN
         /\ IF IsZero(started)
              THEN /\ started' = IF Started(p) THEN now ELSE started
                   /\ progress' = p
              ELSE /\ \E future \in Future(now - started, p) :
                         progress' = [p EXCEPT !.estimated = started + future]
                   /\ started' = started
         /\ seen' = (seen \/ counter > 0)
    /\ pc' = "send"
    /\ UNCHANGED <<params, env, timer, ch, delivered>>

\* the window of the last MaxHist received snapshots
Record(h, p) ==
    IF Len(h) < MaxHist THEN Append(h, p) ELSE Append(Tail(h), p)

\* mutant: a send that does not wait for the consumer and drops the snapshot
ReceiveOrDrop ==
    /\ pc = "send"
    /\ ch = "open"
    /\ delivered' = Record(delivered, progress) \/ delivered' = delivered
    /\ pc' = "sent"
    /\ UNCHANGED <<params, env, timer, started, progress, ch, seen>>

\* ch <- progress meets the consumer's receive.
Receive ==
    /\ pc = "send"
    /\ ch = "open"
    /\ delivered' = Record(delivered, progress)
    /\ pc' = "sent"
    /\ UNCHANGED <<params, env, timer, started, progress, ch, seen>>

\* mutant: return after the first send, complete or not
CheckCompleteAlways ==
    /\ pc = "sent"
    /\ pc' = "done"
    /\ ch' = "closed"
    /\ progress' = NoProgress
    /\ UNCHANGED <<params, env, timer, started, delivered, seen>>

\* mutant: close(ch) in place of return: the loop goes on
CheckCompleteCloseOnly ==
    /\ pc = "sent"
    /\ pc' = "loop"
    /\ ch' = IF Complete(progress) THEN "closed" ELSE ch
    /\ progress' = NoProgress
    /\ UNCHANGED <<params, env, timer, started, delivered, seen>>

\* if progress.Complete() { return } with the deferred close(ch); otherwise
\* the next iteration.
CheckComplete ==
    /\ pc = "sent"
    /\ IF Complete(progress)
         THEN pc' = "done" /\ ch' = "closed"
         ELSE pc' = "loop" /\ ch' = ch
    /\ progress' = NoProgress
    /\ UNCHANGED <<params, env, timer, started, delivered, seen>>

Sampler == Arm \/ Poll \/ TimerFire \/ CtxDone \/ Body \/ CheckComplete

Next ==
    \/ Tick
    \/ Advance
    \/ Reset
    \/ Cancel
    \/ Arm
    \/ Poll
    \/ TimerFire
    \/ CtxDone
    \/ Body
    \/ Receive
    \/ CheckComplete

Spec == Init /\ [][Next]_vars

\* Fairness of the code's scheduling: the runtime runs the goroutine and time
\* passes.  The environment (counter, context, consumer) owes nothing.
FairSpec == Spec /\ WF_vars(Tick) /\ WF_vars(Sampler)

\* ... and a consumer that keeps receiving from the channel.
LiveSpec == FairSpec /\ WF_vars(Receive)

\* ---------------------------------------------------------------- claims
Last(h) == h[Len(h)]

\* a step in which the consumer receives a snapshot
Delivers == pc = "send" /\ pc' = "sent"

\* C1: the first delivered snapshot with count >= size is the last one:
\* every snapshot delivered before the latest has count < size, and once a
\* snapshot with count >= size is delivered the goroutine is on its way to
\* return (no new tick) and then has closed the channel.
C1_CompleteIsLast ==
    /\ \A i \in 1 .. (Len(delivered) - 1) : delivered[i].n < delivered[i].size
    /\ (delivered # <<>> /\ Last(delivered).n >= Last(delivered).size) =>
          \/ pc = "sent" /\ progress = Last(delivered) /\ ch = "open"
          \/ pc = "done" /\ ch = "closed"

C1_Witness ==
    /\ Len(delivered) = 2
    /\ delivered[1].n < delivered[1].size
    /\ delivered[2].n >= delivered[2].size
    /\ ch = "closed"
    /\ ~cancelled

\* C2 (as stated): once the cancellation signal has fired, before a complete
\* snapshot was delivered, no further snapshot is delivered to the consumer.
\* Stated for size > 0 and for the delivery of a snapshot that is not the
\* complete one.
C2_NoSnapshotAfterCancel ==
    [][(cancelled /\ size > 0 /\ progress.n < progress.size) => ~Delivers]_vars

\* C2 (amended): the iteration whose select takes the ctx.Done() case only
\* runs after the signal fired, emits no snapshot and closes the channel as
\* its next step; after the return nothing is delivered and the channel stays
\* closed.
C2_CancelIterationEmitsNothing ==
    [][ /\ (pc' = "ctxdone" => cancelled')
        /\ (pc = "ctxdone" => pc' = "ctxdone" \/ (pc' = "done" /\ ch' = "closed"))
        /\ (pc = "done" => pc' = "done" /\ ch' = "closed" /\ ~Delivers) ]_vars

C2_Witness ==
    /\ cancelled
    /\ pc = "done"
    /\ ch = "closed"
    /\ delivered # <<>>
    /\ Last(delivered).n < Last(delivered).size

\* C3: once the context is cancelled, the channel is eventually closed,
\* whatever the consumer does.
C3_CancelLeadsToClose == cancelled ~> (ch = "closed")

\* C4: if cancellation never fires and the counter eventually stays at or
\* above size, then (the consumer receiving, the goroutine and the timer
\* running) a snapshot with count >= size is eventually delivered and the
\* channel is eventually closed.
C4_EventuallyComplete ==
    ([]~cancelled /\ <>[](counter >= size)) =>
        <>(/\ ch = "closed"
           /\ delivered # <<>>
           /\ Last(delivered).n >= Last(delivered).size)

C4_Witness ==
    /\ ~cancelled
    /\ ch = "closed"
    /\ size > 0
    /\ counter >= size
    /\ Len(delivered) = 2
    /\ Last(delivered).n >= Last(delivered).size

\* C5: the channel is closed only after a snapshot with count >= size was
\* delivered or the cancellation signal fired; if the counter stays below
\* size and cancellation never fires, the channel stays open and the timer
\* case of the select is taken again and again.
C5_ClosedOnlyByCompletionOrCancel ==
    /\ [](ch = "closed" =>
            \/ cancelled
            \/ delivered # <<>> /\ Last(delivered).n >= Last(delivered).size)
    /\ (([]~cancelled /\ [](counter < size)) =>
            ([](ch = "open") /\ []<>(pc = "fired")))

C5_Witness ==
    /\ ~cancelled
    /\ ch = "open"
    /\ counter < size
    /\ pc = "fired"
    /\ Len(delivered) = 2
    /\ now = MaxTime

\* C6: with a Counter that never decreases, the delivered counts are
\* non-decreasing in delivery order (none exceeds the Counter's present
\* value); and every snapshot carries the value the Counter had when its tick
\* read it, unchanged until the consumer receives it.
C6_CountsFollowCounter ==
    /\ [](monotonic =>
            /\ \A i \in 1 .. Len(delivered) : delivered[i].n <= counter
            /\ \A i \in 1 .. (Len(delivered) - 1) :
                  delivered[i].n <= delivered[i + 1].n)
    /\ [][ /\ (pc = "fired" /\ pc' = "send" => progress'.n = counter)
           /\ (pc = "send" => progress' = progress \/ pc' = "sent")
           /\ (Delivers => Last(delivered') = progress) ]_vars

C6_Witness ==
    /\ monotonic
    /\ Len(delivered) = 2
    /\ delivered[1].n > 0
    /\ delivered[1].n < delivered[2].n
    /\ delivered[2].n < counter

\* C7: a delivered snapshot carries a non-zero estimatedCompletion exactly
\* when a strictly earlier tick of the run read a count > 0.
C7_EstimateIffEarlierActivity ==
    \A i \in 1 .. Len(delivered) :
        (delivered[i].estimated # ZeroTime) <=> delivered[i].prior

C7_Witness ==
    /\ Len(delivered) = 2
    /\ delivered[1].n > 0
    /\ delivered[1].estimated = ZeroTime
    /\ delivered[2].estimated # ZeroTime

\* comparisons of a Percent fraction <<a, b>> with 0, 100 and 100 * n / size
IsFinite(q) == q[2] > 0

\* C8: for every delivered snapshot Percent() is 0 when count == 0, 100 when
\* count == size, and otherwise strictly between 0 and 100 and equal to
\* 100 * count / size.  Stated for the regular sizes (size > 0) only, where
\* count == 0 and count == size exclude each other.
C8_PercentRange ==
    \A i \in 1 .. Len(delivered) :
        LET p == delivered[i]
            q == Percent(p)
        IN  IF p.size <= 0 THEN TRUE
            ELSE IF p.n = 0 THEN IsFinite(q) /\ q[1] = 0
            ELSE IF p.n = p.size THEN IsFinite(q) /\ q[1] = 100 * q[2]
            ELSE /\ IsFinite(q)
                 /\ 0 < q[1]
                 /\ q[1] < 100 * q[2]
                 /\ p.size # 0
                 /\ q[1] * p.size = 100 * p.n * q[2]

\* C10 (as stated): with size = 0 the first snapshot went through the
\* estimation step (the division count/size) and carries its result.
C10_ZeroSizeDivides ==
    (size = 0 /\ delivered # <<>>) => delivered[1].estimated # ZeroTime

\* C10 (amended): with size = 0 the first tick's snapshot is complete: it is
\* delivered without an estimate, the anchor is at most set by that very tick
\* (so the estimation step never runs with size = 0), and the run ends with
\* it.
C10_ZeroSizeEndsOnFirstTick ==
    size = 0 =>
        /\ Len(delivered) <= 1
        /\ \A i \in 1 .. Len(delivered) :
              /\ delivered[i].estimated = ZeroTime
              /\ ~delivered[i].prior
        /\ (pc \in {"send", "sent"} => progress.estimated = ZeroTime)
        /\ (delivered # <<>> => pc \in {"sent", "done"})

C10_Witness ==
    /\ size = 0
    /\ Len(delivered) = 1
    /\ delivered[1].n > 0
    /\ started # ZeroTime
    /\ ch = "closed"
    /\ ~cancelled

\* ------------------------------------------------ the linear-run scenario
\* size = 100, d = 10 (the clock unit standing for 1 ms), a Counter that
\* advances by one per unit up to size, and a goroutine and a consumer that
\* act at once: time passes only while the goroutine is blocked in the select
\* with its timer running.
ScenarioInit ==
    /\ size = 100
    /\ d = 10
    /\ monotonic = TRUE
    /\ now = Epoch
    /\ timer = NoTimer
    /\ counter = 0
    /\ cancelled = FALSE
    /\ started = ZeroTime
    /\ pc = "loop"
    /\ progress = NoProgress
    /\ ch = "open"
    /\ delivered = <<>>
    /\ seen = FALSE

ScenarioTick ==
    /\ pc = "wait"
    /\ timer > 0
    /\ now' = now + 1
    /\ timer' = timer - 1
    /\ counter' = Min(size, now' - Epoch)
    /\ UNCHANGED <<params, cancelled, started, pc, progress, ch, delivered,
                   seen>>

\* the select of the scenario: nothing is ready when it is entered
ScenarioPoll ==
    /\ ~cancelled
    /\ timer > 0
    /\ Poll

ScenarioNext ==
    \/ ScenarioTick
    \/ Arm
    \/ ScenarioPoll
    \/ TimerFire
    \/ Body
    \/ Receive
    \/ CheckComplete

ScenarioSpec == ScenarioInit /\ [][ScenarioNext]_vars

\* the snapshot of the tick at t units after NewTicker was called
At(t) == {i \in 1 .. Len(delivered) : delivered[i].at = Epoch + t}

\* C9 (as stated): in the scenario the snapshot at t=10 has no estimate, the
\* snapshot at t=20 has count 20 and an estimate within one interval of
\* t=100, and the snapshot at t=100 has count 100 and ends the run.
C9_ScenarioAsStated ==
    /\ \A i \in At(10) : delivered[i].n = 10 /\ delivered[i].estimated = ZeroTime
    /\ \A i \in At(20) :
          /\ delivered[i].n = 20
          /\ delivered[i].estimated >= Epoch + 100 - d
          /\ delivered[i].estimated <= Epoch + 100 + d
    /\ \A i \in At(100) :
          /\ delivered[i].n = 100
          /\ i = Len(delivered)
          /\ pc \in {"sent", "done"}
    /\ (pc = "done" => ch = "closed" /\ At(100) # {})

\* C9 (amended): as above, except that the snapshot at t=20 carries the
\* estimate t=60: the anchor t=10 plus the 10 units elapsed since the anchor
\* times size/count = 100/20.
C9_ScenarioEstimate ==
    /\ (delivered # <<>> => started = Epoch + 10)
    /\ \A i \in At(10) : delivered[i].n = 10 /\ delivered[i].estimated = ZeroTime
    /\ \A i \in At(20) :
          /\ delivered[i].n = 20
          /\ delivered[i].estimated = Epoch + 60
    /\ \A i \in At(100) :
          /\ delivered[i].n = 100
          /\ delivered[i].estimated = Epoch + 100
          /\ i = Len(delivered)
          /\ pc \in {"sent", "done"}
    /\ (pc = "done" => ch = "closed" /\ At(100) # {})

C9_Witness ==
    /\ size = 100
    /\ d = 10
    /\ started = Epoch + 10
    /\ ch = "closed"
    /\ At(100) # {}
    /\ now = Epoch + 100

\* C11: no snapshot is built at construction or at cancellation: the Counter
\* is read, and a snapshot exists, only once a full interval d has passed
\* since NewTicker was called, and every snapshot is built by an iteration
\* whose select took the timer case, with the timer due.
C11_FirstTickAfterInterval ==
    /\ [](/\ (pc \in {"fired", "send", "sent"} \/ delivered # <<>> \/ seen
                 \/ started # ZeroTime) => now >= Epoch + d
          /\ (pc \in {"send", "sent"} => progress.at >= Epoch + d)
          /\ \A i \in 1 .. Len(delivered) : delivered[i].at >= Epoch + d)
    /\ [][ /\ (pc' = "send" /\ pc # "send" => pc = "fired")
           /\ (pc' = "fired" /\ pc # "fired" =>
                  pc \in {"select", "wait"} /\ timer = 0) ]_vars

C11_Witness ==
    /\ d = MaxInterval
    /\ now = Epoch + d
    /\ Len(delivered) = 1
    /\ delivered[1].at = Epoch + d
    /\ cancelled

\* C12: backpressure.  While a snapshot is pending on the send no timer is
\* armed and the goroutine holds exactly that snapshot, unchanged, until the
\* consumer receives it; it is appended to what the consumer has received
\* (nothing is dropped or reordered), and only after that does the goroutine
\* go back to the top of the loop, arm the next timer and read the Counter.
C12_Backpressure ==
    /\ [](/\ (pc \notin {"select", "wait"} => timer = NoTimer)
          /\ (pc \notin {"send", "sent"} => progress = NoProgress))
    /\ [][ /\ (pc = "send" =>
                  \/ pc' = "send" /\ progress' = progress
                       /\ delivered' = delivered
                  \/ pc' = "sent" /\ progress' = progress
                       /\ delivered' = Record(delivered, progress))
           /\ (delivered' # delivered => Delivers)
           /\ (pc' = "loop" /\ pc # "loop" =>
                  pc = "sent" /\ Last(delivered) = progress)
           /\ (pc' = "select" /\ pc # "select" => pc = "loop")
           /\ (pc' = "fired" /\ pc # "fired" => pc \in {"select", "wait"}) ]_vars

C12_Witness ==
    /\ pc = "send"
    /\ ~cancelled
    /\ now > progress.at
    /\ counter > progress.n
    /\ Len(delivered) = 1
    /\ delivered[1].at < progress.at

\* C13 (as stated): the Complete state is entered only from Estimating: the
\* complete snapshot that ends a run carries a computed estimate.  Stated for
\* size > 0.
C13_CompleteOnlyFromEstimating ==
    [][(pc = "sent" /\ pc' = "done" /\ size > 0) =>
           progress.estimated # ZeroTime]_vars

\* C13 (amended): the anchor, once set, stays set (Estimating is not left for
\* Waiting); the run ends either by the return after a delivered snapshot
\* with count >= size, which carries an estimate only if an earlier tick had
\* read a count > 0, or by the return of the ctx.Done() case, from whatever
\* phase; and once it has ended the channel is closed and the anchor, the
\* snapshot and what the consumer received change no more.
C13_PhaseOrder ==
    /\ [](pc = "done" <=> ch = "closed")
    /\ [][ /\ (started # ZeroTime => started' # ZeroTime)
           /\ (pc = "done" =>
                  /\ pc' = "done"
                  /\ ch' = "closed"
                  /\ started' = started
                  /\ progress' = progress
                  /\ delivered' = delivered
                  /\ seen' = seen)
           /\ (pc' = "done" /\ pc # "done" =>
                  \/ /\ pc = "sent"
                     /\ progress.n >= progress.size
                     /\ Last(delivered) = progress
                     /\ (progress.estimated # ZeroTime <=> progress.prior)
                  \/ pc = "ctxdone" /\ cancelled) ]_vars

C13_Witness ==
    /\ pc = "done"
    /\ ~cancelled
    /\ size > 0
    /\ started # ZeroTime
    /\ Len(delivered) = 1
    /\ delivered[1].n >= size
    /\ delivered[1].estimated = ZeroTime

\* the snapshots at hand: those the consumer holds and the one being sent
Snapshots ==
    {delivered[i] : i \in 1 .. Len(delivered)} \cup
        (IF pc \in {"send", "sent"} THEN {progress} ELSE {})

\* C14: the anchor started is set at most once, by the first tick that reads
\* a count > 0 and to the time of that tick, and is never changed or cleared
\* afterwards, whatever later ticks read; every estimate of the run is the
\* anchor plus the projection of the time elapsed since that same anchor.
C14_AnchorFixed ==
    /\ [](\A s \in Snapshots :
             /\ (s.prior => started # ZeroTime /\ started <= s.at)
             /\ (s.estimated # ZeroTime =>
                    (s.estimated - started) \in Future(s.at - started, s)))
    /\ [][ /\ (started # ZeroTime => started' = started)
           /\ (started' # started =>
                  /\ pc = "fired"
                  /\ counter > 0
                  /\ ~seen
                  /\ started' = now
                  /\ progress'.at = now
                  /\ progress'.estimated = ZeroTime) ]_vars

C14_Witness ==
    /\ ~monotonic
    /\ Len(delivered) = 2
    /\ delivered[1].prior
    /\ delivered[1].n > 0
    /\ delivered[2].n = 0
    /\ started < delivered[1].at
    /\ delivered[1].at < delivered[2].at

\* C15: for every snapshot that carries an estimate (and a count > 0, the
\* divisor), estimatedCompletion - started is (sampleTime - started) * size /
\* count, truncated to a whole clock unit as time.Duration is; so with
\* 0 < count <= size the estimate is not before the sample time, and with
\* count == size it is the sample time.
C15_EstimateFormula ==
    \A s \in Snapshots :
        (s.estimated # ZeroTime /\ s.n > 0) =>
            LET past == s.at - started
                future == s.estimated - started
            IN  /\ s.size > 0
                /\ past >= 0
                /\ future * s.n <= past * s.size
                /\ past * s.size < (future + 1) * s.n
                /\ (s.n <= s.size => s.estimated >= s.at)
                /\ (s.n = s.size => s.estimated = s.at)

C15_Witness ==
    /\ Len(delivered) = 2
    /\ delivered[1].estimated # ZeroTime
    /\ delivered[1].n < size
    /\ delivered[1].estimated > delivered[1].at + 1
    /\ delivered[2].n = size
    /\ delivered[2].estimated = delivered[2].at
    /\ delivered[2].at > started + 1

\* C16: the goroutine is never at a send (or anywhere but returned) with the
\* channel closed, and it closes the channel once: the step that returns
\* finds the channel open, and after it the goroutine takes no step.  A send
\* on, or a close of, a closed channel are the panics the code could raise.
C16_NoSendAfterClose ==
    /\ [](ch = "closed" => pc = "done")
    /\ [][ /\ (ch = "closed" => ch' = "closed" /\ pc' = "done")
           /\ (pc' = "done" /\ pc # "done" =>
                  ch = "open" /\ ch' = "closed" /\ pc \in {"sent", "ctxdone"})
           /\ (ch' # ch => pc' = "done" /\ pc # "done") ]_vars

C16_Witness ==
    /\ pc = "done"
    /\ ch = "closed"
    /\ cancelled
    /\ Len(delivered) = 2
    /\ Last(delivered).n >= size
    /\ now = MaxTime

\* C17 (as stated): after the cancellation signal fires at most one further
\* snapshot is delivered.  If a snapshot is pending on the send with the
\* signal fired, then once it has been received, a snapshot built after it is
\* never received.
C17_AtMostOneAfterCancel ==
    []((cancelled /\ pc = "send") =>
          []((cancelled /\ pc = "sent") =>
                [](pc = "send" => [](pc # "sent"))))

\* C17 (amended): after the signal fires the goroutine is never blocked in
\* the select (it is woken with, or chooses, the ctx.Done() case), and the
\* timer case is taken only by a select that, when it polls, finds its timer
\* already due: the interval d has passed since time.After(d) was evaluated
\* at the top of that iteration.
C17_TimerCaseAfterCancel ==
    /\ [](~(cancelled /\ pc = "wait"))
    /\ [][ (cancelled /\ pc' = "fired" /\ pc # "fired") =>
              (pc = "select" /\ timer = 0) ]_vars

C17_Witness ==
    /\ cancelled
    /\ pc = "sent"
    /\ Len(delivered) = 2
    /\ delivered[1].at < delivered[2].at
    /\ started = ZeroTime
    /\ now = delivered[2].at

\* C18: with a Counter that never decreases, every tick that takes the
\* estimation branch (anchor already set) reads count > 0 and size > 0, so
\* the ratio count/size is positive and finite and the estimate is the anchor
\* plus a finite non-negative duration; with size <= 0 the first tick's
\* snapshot is complete and ends the run, so no tick ever takes the
\* estimation branch.
C18_EstimationOperands ==
    monotonic =>
        /\ (pc = "fired" /\ ~IsZero(started)) => (counter > 0 /\ size > 0)
        /\ \A s \in Snapshots :
              s.prior => /\ s.n > 0
                         /\ s.size > 0
                         /\ s.estimated >= started
                         /\ s.estimated < FarDuration
        /\ size <= 0 =>
              /\ Len(delivered) <= 1
              /\ \A s \in Snapshots : ~s.prior /\ s.estimated = ZeroTime
              /\ (delivered # <<>> => pc \in {"sent", "done"})

C18_Witness ==
    /\ monotonic
    /\ pc = "send"
    /\ progress.prior
    /\ progress.n > 0
    /\ progress.n < progress.size
    /\ now > started
    /\ progress.estimated > now

TypeOK ==
    /\ size \in Sizes
    /\ d \in Intervals
    /\ now \in Epoch .. MaxTime
    /\ timer \in NoTimer .. MaxInterval
    /\ counter \in 0 .. MaxCount
    /\ started \in ZeroTime .. MaxTime
    /\ pc \in {"loop", "select", "wait", "fired", "ctxdone", "send", "sent", "done"}
    /\ ch \in {"open", "closed"}
    /\ Len(delivered) <= MaxHist
====
